---------------------------- MODULE Spec2Model ----------------------------
(***************************************************************************)
(* Receipts_Detection: the client-side pipeline around the receipt         *)
(* detection API.                                                          *)
(*                                                                         *)
(*   examples/api_client.py        ReceiptDetectionClient                  *)
(*   examples/basic_usage.py       detect_receipts                         *)
(*   examples/batch_processing.py  process_batch                           *)
(*                                                                         *)
(* Numbers.  A box coordinate is held in half pixels (the JSON value times *)
(* two), so that int() has something to truncate.  A score is held in      *)
(* thousandths, a formatted score ("{score:.2f}") in hundredths.           *)
(***************************************************************************)
EXTENDS Integers, Sequences, FiniteSets

VARIABLES
    \* ReceiptDetectionClient.get_detection_summary: the call and its result
    sumArg, sumRet,
    \* detect_receipts / detect_receipts_from_pil: the call and its outcome
    cliCall, cliRet, cliRaised, cliPrinted,
    \* ReceiptDetectionClient.crop_receipts: the call, the output directory
    \* and the outcome of the last two runs
    cropArg, cropDir, cropRet, cropPrev, cropRuns,
    \* process_batch
    pc, image_files, idx, successful, failed, written, log, drawn,
    \* scripts/test_bbox.py and tests/test_bbox_bulk.py: the script run, its
    \* place, the listing, the entry it is at, the files saved and what was
    \* drawn on the last image
    script, scrPc, scrFiles, scrIdx, scrSaved, scrDrawn

sumVars   == <<sumArg, sumRet>>
cliVars   == <<cliCall, cliRet, cliRaised, cliPrinted>>
cropVars  == <<cropArg, cropDir, cropRet, cropPrev, cropRuns>>
batchVars == <<pc, image_files, idx, successful, failed, written, log, drawn>>
scriptVars == <<script, scrPc, scrFiles, scrIdx, scrSaved, scrDrawn>>
vars == <<sumVars, cliVars, cropVars, batchVars, scriptVars>>

---------------------------------------------------------------------------
(* Bounds *)

\* longest boxes list and longest scores list of a detection payload
MaxLen == 2
\* most entries in the input directory of a batch
MaxFiles == 3

---------------------------------------------------------------------------
(* The detection payload: response.json(), a loosely typed mapping *)

Min(a, b) == IF a <= b THEN a ELSE b
Max(a, b) == IF a >= b THEN a ELSE b

SeqsUpTo(S, n) == UNION {[1..k -> S] : k \in 0..n}

\* [10,10,50,50]
BoxInside == <<20, 20, 100, 100>>
\* [290,190,310,210]
BoxPartly == <<580, 380, 620, 420>>
\* [400,400,410,410]
BoxOutside == <<800, 800, 820, 820>>
\* [30,30,30,60]: no width
BoxEmpty == <<60, 60, 60, 120>>
\* [-0.5,4.5,20.5,30]
BoxFraction == <<-1, 9, 41, 60>>

Boxes == {BoxInside, BoxPartly, BoxOutside, BoxEmpty, BoxFraction}

\* 0.125, 0.896, 0.904
Scores == {125, 896, 904}

\* None
None == [null |-> TRUE, d |-> <<>>]

\* a mapping with the keys K
Mapping(K, bs, ss) ==
    [null |-> FALSE,
     d |-> [k \in K |-> IF k = "boxes" THEN bs ELSE IF k = "scores" THEN ss ELSE <<>>]]

Keys == {"boxes", "scores", "labels"}

Payloads ==
    {None} \cup
    { Mapping(K, bs, ss) :
        K \in SUBSET Keys,
        bs \in SeqsUpTo(Boxes, MaxLen),
        ss \in SeqsUpTo(Scores, MaxLen) }

\* `not detection_result`: None and the empty mapping are falsy
Falsy(r) == r.null \/ DOMAIN r.d = {}

\* detection_result.get(key, [])
Get(r, key) == IF key \in DOMAIN r.d THEN r.d[key] ELSE <<>>

\* zip(boxes, scores): the pairs up to the shorter of the two
Zip(bs, ss) == [k \in 1..Min(Len(bs), Len(ss)) |-> <<bs[k], ss[k]>>]

\* int(v) of a value held in halves: truncation toward zero
PyInt(h) == IF h >= 0 THEN h \div 2 ELSE -((-h) \div 2)

\* the thousandths n/1000 ending in 5 whose double lies above the tie
TiesUp ==
    {5, 25, 35, 55, 65, 85, 95, 115, 135, 165, 195, 225, 255, 265, 275, 315,
     325, 335, 375, 385, 395, 405, 445, 455, 465, 505, 515, 525, 535, 545,
     555, 635, 645, 655, 665, 675, 685, 755, 765, 775, 785, 795, 805, 875,
     885, 895, 905, 915, 925, 935}

\* f"{score:.2f}": the score in hundredths, as the double rounds
Fmt2(s) ==
    IF s % 10 = 5
    THEN (IF s \in TiesUp THEN s \div 10 + 1 ELSE s \div 10)
    ELSE (s + 5) \div 10

---------------------------------------------------------------------------
(* ReceiptDetectionClient.get_detection_summary *)

RECURSIVE Sum(_)
Sum(s) == IF s = <<>> THEN 0 ELSE s[1] + Sum(Tail(s))

RECURSIVE GCD(_, _)
GCD(a, b) == IF b = 0 THEN a ELSE GCD(b, a % b)

\* a / b as the fraction in lowest terms
Ratio(a, b) == LET g == GCD(a, b) IN <<a \div g, b \div g>>

Zero == <<0, 1>>

SeqMax(s) == CHOOSE m \in {s[k] : k \in DOMAIN s} : \A k \in DOMAIN s : s[k] <= m
SeqMin(s) == CHOOSE m \in {s[k] : k \in DOMAIN s} : \A k \in DOMAIN s : s[k] >= m

EmptySummary ==
    [count |-> 0, avg_confidence |-> Zero, max_confidence |-> 0, min_confidence |-> 0]

\* the summary with the raw box count kept when there are no scores
get_detection_summary_count_boxes(r) ==
    IF Falsy(r) THEN EmptySummary
    ELSE LET boxes  == Get(r, "boxes")
             scores == Get(r, "scores")
         IN IF scores = <<>> THEN [EmptySummary EXCEPT !.count = Len(boxes)]
            ELSE [count |-> Len(boxes),
                  avg_confidence |-> Ratio(Sum(scores), Len(scores)),
                  max_confidence |-> SeqMax(scores),
                  min_confidence |-> SeqMin(scores)]

get_detection_summary(r) ==
    IF Falsy(r) THEN EmptySummary
    ELSE LET boxes  == Get(r, "boxes")
             scores == Get(r, "scores")
         IN IF scores = <<>> THEN EmptySummary
            ELSE [count |-> Len(boxes),
                  avg_confidence |-> Ratio(Sum(scores), Len(scores)),
                  max_confidence |-> SeqMax(scores),
                  min_confidence |-> SeqMin(scores)]

NoCall == [called |-> FALSE, raised |-> FALSE, value |-> EmptySummary]

\* client.get_detection_summary(result)
GetDetectionSummary ==
    /\ ~sumRet.called
    /\ sumRet' = [called |-> TRUE, raised |-> FALSE, value |-> get_detection_summary(sumArg)]
    /\ UNCHANGED <<sumArg, cliVars, cropVars, batchVars, scriptVars>>

\* no call of the summary
IdleSummary == sumArg = None /\ sumRet = NoCall

---------------------------------------------------------------------------
(* detect_receipts, detect_receipts_from_pil (api_client.py) and           *)
(* detect_receipts (basic_usage.py)                                        *)

\* response bodies the client is tried on
ClientBodies ==
    {None,
     Mapping({}, <<>>, <<>>),
     Mapping({"boxes", "scores"}, <<BoxInside>>, <<904>>),
     Mapping({"boxes", "scores"}, <<BoxInside, BoxPartly>>, <<904>>)}

\* what the file system and the network do during one call:
\*   srcOk   open(image_path) / image.save(PNG) succeeds
\*   postOk  the POST returns a response (no transport error)
\*   status, text   the response
\*   jsonOk, body   response.json() parses, and to what
Envs ==
    [srcOk : BOOLEAN, postOk : BOOLEAN, status : {200, 404, 500},
     text : {"detail"}, jsonOk : BOOLEAN, body : ClientBodies]

Quiet == [kind |-> "none"]
PrintedApi(e) == [kind |-> "api", status |-> e.status, text |-> e.text]
PrintedExc(what) == [kind |-> "exception", what |-> what]

Outcome(ret, raised, printed) == [ret |-> ret, raised |-> raised, printed |-> printed]

\* the body of the try block: the first thing that goes wrong, if any
Request(e) ==
    IF ~e.srcOk THEN [ok |-> FALSE, exc |-> "source"]
    ELSE IF ~e.postOk THEN [ok |-> FALSE, exc |-> "post"]
    ELSE IF e.status = 200 /\ ~e.jsonOk THEN [ok |-> FALSE, exc |-> "json"]
    ELSE [ok |-> TRUE, exc |-> "none"]

\* the client with no try/except around the request
detect_receipts_unguarded(e) ==
    LET q == Request(e) IN
    IF ~q.ok THEN Outcome(None, TRUE, Quiet)
    ELSE IF e.status = 200 THEN Outcome(e.body, FALSE, Quiet)
    ELSE Outcome(None, FALSE, PrintedApi(e))

detect_receipts(e) ==
    LET q == Request(e) IN
    IF ~q.ok THEN Outcome(None, FALSE, PrintedExc(q.exc))
    ELSE IF e.status = 200 THEN Outcome(e.body, FALSE, Quiet)
    ELSE Outcome(None, FALSE, PrintedApi(e))

detect_receipts_from_pil(e) ==
    LET q == Request(e) IN
    IF ~q.ok THEN Outcome(None, FALSE, PrintedExc(q.exc))
    ELSE IF e.status = 200 THEN Outcome(e.body, FALSE, Quiet)
    ELSE Outcome(None, FALSE, PrintedApi(e))

basic_detect_receipts(e) ==
    LET q == Request(e) IN
    IF ~q.ok THEN Outcome(None, FALSE, PrintedExc(q.exc))
    ELSE IF e.status = 200 THEN Outcome(e.body, FALSE, Quiet)
    ELSE Outcome(None, FALSE, PrintedApi(e))

\* client.detect_receipts(image_path)
DetectReceipts ==
    /\ ~cliCall.called
    /\ cliCall' = [cliCall EXCEPT !.called = TRUE, !.fn = "detect_receipts"]
    /\ cliRet' = detect_receipts(cliCall.env).ret
    /\ cliRaised' = detect_receipts(cliCall.env).raised
    /\ cliPrinted' = detect_receipts(cliCall.env).printed
    /\ UNCHANGED <<sumVars, cropVars, batchVars, scriptVars>>

\* client.detect_receipts_from_pil(image)
DetectReceiptsFromPil ==
    /\ ~cliCall.called
    /\ cliCall' = [cliCall EXCEPT !.called = TRUE, !.fn = "detect_receipts_from_pil"]
    /\ cliRet' = detect_receipts_from_pil(cliCall.env).ret
    /\ cliRaised' = detect_receipts_from_pil(cliCall.env).raised
    /\ cliPrinted' = detect_receipts_from_pil(cliCall.env).printed
    /\ UNCHANGED <<sumVars, cropVars, batchVars, scriptVars>>

\* basic_usage.detect_receipts(image_path)
BasicDetectReceipts ==
    /\ ~cliCall.called
    /\ cliCall' = [cliCall EXCEPT !.called = TRUE, !.fn = "basic_usage.detect_receipts"]
    /\ cliRet' = basic_detect_receipts(cliCall.env).ret
    /\ cliRaised' = basic_detect_receipts(cliCall.env).raised
    /\ cliPrinted' = basic_detect_receipts(cliCall.env).printed
    /\ UNCHANGED <<sumVars, cropVars, batchVars, scriptVars>>

NoEnv ==
    [srcOk |-> FALSE, postOk |-> FALSE, status |-> 500, text |-> "detail",
     jsonOk |-> FALSE, body |-> None]

\* no call of a client
IdleClient ==
    /\ cliCall = [called |-> FALSE, fn |-> "none", env |-> NoEnv]
    /\ cliRet = None
    /\ cliRaised = FALSE
    /\ cliPrinted = Quiet

---------------------------------------------------------------------------
(* ReceiptDetectionClient.crop_receipts *)

\* the source image: decodable or not, and its size in pixels
Photo  == [id |-> "photo", ok |-> TRUE, w |-> 300, h |-> 200]
Broken == [id |-> "broken", ok |-> FALSE, w |-> 0, h |-> 0]

\* the output directory: a set of files, one per name; a file's content is
\* the sequence of images encoded into it (an empty file holds none)
File(name, content) == [name |-> name, content |-> content]
Names(dir) == {f.name : f \in dir}
Content(dir, name) == (CHOOSE f \in dir : f.name = name).content

\* the pixels image.crop((x1, y1, x2, y2)) copies: the region as given,
\* what lies outside the image being filled in, not cut off
Crop(img, x1, y1, x2, y2) == [src |-> img.id, region |-> <<x1, y1, x2, y2>>]

\* a save that appends to a file that is already there
Save_append(dir, name, pixels) ==
    IF name \in Names(dir)
    THEN {f \in dir : f.name # name} \cup {File(name, Append(Content(dir, name), pixels))}
    ELSE dir \cup {File(name, <<pixels>>)}

\* cropped_image.save(output_path): the file is created or replaced
Save(dir, name, pixels) ==
    {f \in dir : f.name # name} \cup {File(name, <<pixels>>)}

\* a save that raises (an image of no width or no height has no JPEG
\* encoding): the file was opened for writing first, so a file that was
\* there is left empty; one this call created is removed again by a
\* library that cleans up, and left empty by one that does not
SaveFailed(dir, name, cleans) ==
    IF name \notin Names(dir) /\ cleans THEN dir
    ELSE {f \in dir : f.name # name} \cup {File(name, <<>>)}

\* a file name that leaves the index out
output_filename_no_index(i, score) == <<1, Fmt2(score)>>

\* f"receipt_{i+1}_score_{score:.2f}.jpg", i counted from 0
output_filename(i, score) == <<i + 1, Fmt2(score)>>

Raised(dir) == [dir |-> dir, raised |-> TRUE, paths |-> <<>>]

\* the loop over enumerate(zip(boxes, scores)), from pair k on
RECURSIVE CropLoop(_, _, _, _, _, _)
CropLoop(img, pairs, k, dir, paths, cleans) ==
    IF k > Len(pairs) THEN [dir |-> dir, raised |-> FALSE, paths |-> paths]
    ELSE LET box   == pairs[k][1]
             score == pairs[k][2]
         IN IF Len(box) # 4 THEN Raised(dir)
            ELSE LET x1 == PyInt(box[1])
                     y1 == PyInt(box[2])
                     x2 == PyInt(box[3])
                     y2 == PyInt(box[4])
                     name == output_filename(k - 1, score)
                 IN IF x2 <= x1 \/ y2 <= y1
                    THEN Raised(SaveFailed(dir, name, cleans))
                    ELSE CropLoop(img, pairs, k + 1,
                                  Save(dir, name, Crop(img, x1, y1, x2, y2)),
                                  Append(paths, name), cleans)

crop_receipts(img, r, dir, cleans) ==
    IF Falsy(r) THEN [dir |-> dir, raised |-> FALSE, paths |-> <<>>]
    ELSE IF ~img.ok THEN Raised(dir)
    ELSE CropLoop(img, Zip(Get(r, "boxes"), Get(r, "scores")), 1, dir, <<>>, cleans)

\* a file an earlier call left in the output directory
Stale == File(<<1, 90>>, <<[src |-> "earlier", region |-> <<0, 0, 8, 8>>]>>)

OutputDirs == {{}, {Stale}}

\* image, detection result, and whether the imaging library cleans up
CropArgs ==
    [image : {Photo}, result : Payloads, cleans : BOOLEAN]
    \cup
    [image : {Broken}, result : ClientBodies, cleans : {TRUE}]

CropOutcome == crop_receipts(cropArg.image, cropArg.result, cropDir, cropArg.cleans)

\* client.crop_receipts(image_path, result, output_dir)
CropReceipts ==
    /\ cropRuns = 0
    /\ cropDir' = CropOutcome.dir
    /\ cropRet' = [called |-> TRUE, raised |-> CropOutcome.raised, paths |-> CropOutcome.paths]
    /\ cropPrev' = [ret |-> cropRet, dir |-> cropDir]
    /\ cropRuns' = 1
    /\ UNCHANGED <<cropArg, sumVars, cliVars, batchVars, scriptVars>>

\* the same call once more
CropReceiptsAgain ==
    /\ cropRuns = 1
    /\ cropDir' = CropOutcome.dir
    /\ cropRet' = [called |-> TRUE, raised |-> CropOutcome.raised, paths |-> CropOutcome.paths]
    /\ cropPrev' = [ret |-> cropRet, dir |-> cropDir]
    /\ cropRuns' = 2
    /\ UNCHANGED <<cropArg, sumVars, cliVars, batchVars, scriptVars>>

NoArg == [image |-> Broken, result |-> None, cleans |-> TRUE]

NotCropped == [called |-> FALSE, raised |-> FALSE, paths |-> <<>>]

\* no call of crop_receipts
IdleCrop ==
    /\ cropArg = NoArg
    /\ cropDir = {}
    /\ cropRet = NotCropped
    /\ cropPrev = [ret |-> NotCropped, dir |-> {}]
    /\ cropRuns = 0

---------------------------------------------------------------------------
(* process_batch *)

\* f.lower() of the extensions a listing is tried on
Lower(ext) == IF ext = ".JPG" THEN ".jpg" ELSE ext

Exts == {".JPG", ".txt"}

SUPPORTED_EXTENSIONS == {".jpg", ".jpeg", ".png", ".bmp", ".tiff", ".webp"}

\* os.listdir(input_dir): the entry at position n is the file <<n, ext>>
Listings == UNION {[1..n -> Exts] : n \in 0..MaxFiles}

Entry(l, n) == <<n, l[n]>>

RECURSIVE Supported(_, _)
Supported(l, n) ==
    IF n > Len(l) THEN <<>>
    ELSE IF Lower(l[n]) \in SUPPORTED_EXTENSIONS
         THEN <<Entry(l, n)>> \o Supported(l, n + 1)
         ELSE Supported(l, n + 1)

\* a box that is not four numbers
BoxShort == <<20, 20, 100>>

\* response bodies the batch is tried on
BatchBodies ==
    {None,
     Mapping({"labels"}, <<>>, <<>>),
     Mapping({"boxes", "scores"}, <<BoxFraction>>, <<904>>),
     Mapping({"boxes", "scores"}, <<BoxInside, BoxPartly>>, <<896>>),
     Mapping({"boxes", "scores"}, <<BoxInside, BoxShort>>, <<125, 904>>)}

\* what the file system and the network do for one image: as for the
\* client, and whether the image decodes and the annotated copy saves
BatchEnvs ==
    [srcOk : BOOLEAN, postOk : BOOLEAN, status : {200, 500}, text : {"detail"},
     jsonOk : BOOLEAN, body : BatchBodies, decodeOk : BOOLEAN, saveOk : BOOLEAN]

\* draw.rectangle and draw.text for one box
Drawing(box, score) ==
    LET x1 == PyInt(box[1])
        y1 == PyInt(box[2])
        x2 == PyInt(box[3])
        y2 == PyInt(box[4])
    IN [rect |-> <<x1, y1, x2, y2>>, label |-> <<x1, Max(0, y1 - 15)>>, text |-> Fmt2(score)]

\* the loop over zip(boxes, scores), from pair k on: what was drawn, and
\* whether unpacking a box raised
RECURSIVE DrawLoop(_, _, _)
DrawLoop(pairs, k, done) ==
    IF k > Len(pairs) THEN [raised |-> FALSE, drawn |-> done]
    ELSE IF Len(pairs[k][1]) # 4 THEN [raised |-> TRUE, drawn |-> done]
    ELSE DrawLoop(pairs, k + 1, Append(done, Drawing(pairs[k][1], pairs[k][2])))

Stopped(branch, stage, d) == [branch |-> branch, stage |-> stage, drawn |-> d]

\* the try block for one image: the branch it ends in, the statement that
\* raised, and what was drawn on the way
Attempt(e) ==
    IF ~e.srcOk THEN Stopped("except", "open", <<>>)
    ELSE IF ~e.postOk THEN Stopped("except", "post", <<>>)
    ELSE IF e.status # 200 THEN Stopped("http", "status", <<>>)
    ELSE IF ~e.jsonOk THEN Stopped("except", "json", <<>>)
    ELSE IF e.body.null THEN Stopped("except", "payload", <<>>)
    ELSE IF ~e.decodeOk THEN Stopped("except", "decode", <<>>)
    ELSE LET d == DrawLoop(Zip(Get(e.body, "boxes"), Get(e.body, "scores")), 1, <<>>)
         IN IF d.raised THEN Stopped("except", "box", d.drawn)
            ELSE IF ~e.saveOk THEN Stopped("except", "save", d.drawn)
            ELSE Stopped("ok", "none", d.drawn)

\* the statements of the detection call, and those of the annotation that
\* follows a payload
DetectStages == {"open", "post", "status", "json", "payload"}
AnnotateStages == {"decode", "box", "save"}

InitBatch ==
    /\ pc = "start"
    /\ image_files = <<>>
    /\ idx = 0
    /\ successful = 0
    /\ failed = 0
    /\ written = {}
    /\ log = <<>>
    /\ drawn = <<>>

\* os.makedirs(output_dir) raises
MakedirsRaises ==
    /\ pc = "start"
    /\ pc' = "raised"
    /\ UNCHANGED <<image_files, idx, successful, failed, written, log, drawn>>
    /\ UNCHANGED <<sumVars, cliVars, cropVars, scriptVars>>

\* os.listdir(input_dir) raises
ListdirRaises ==
    /\ pc = "start"
    /\ pc' = "raised"
    /\ UNCHANGED <<image_files, idx, successful, failed, written, log, drawn>>
    /\ UNCHANGED <<sumVars, cliVars, cropVars, scriptVars>>

\* the listing holds no supported file: the early return
NoImages ==
    /\ pc = "start"
    /\ \E l \in Listings : Supported(l, 1) = <<>>
    /\ pc' = "done"
    /\ UNCHANGED <<image_files, idx, successful, failed, written, log, drawn>>
    /\ UNCHANGED <<sumVars, cliVars, cropVars, scriptVars>>

\* the listing holds supported files: the loop is entered
StartLoop ==
    /\ pc = "start"
    /\ \E l \in Listings :
          /\ Supported(l, 1) # <<>>
          /\ image_files' = Supported(l, 1)
    /\ idx' = 1
    /\ pc' = "loop"
    /\ UNCHANGED <<successful, failed, written, log, drawn>>
    /\ UNCHANGED <<sumVars, cliVars, cropVars, scriptVars>>

\* the end of one iteration: the next image, or the summary after the last
NextImage ==
    /\ idx' = idx + 1
    /\ pc' = IF idx = Len(image_files) THEN "done" ELSE "loop"

Line(a) == [file |-> image_files[idx], branch |-> a.branch, stage |-> a.stage]

\* status 200 and nothing raised: the annotated image is saved
ImageSucceeded ==
    /\ pc = "loop"
    /\ \E e \in BatchEnvs :
          LET a == Attempt(e) IN
          /\ a.branch = "ok"
          /\ log' = Append(log, Line(a))
          /\ drawn' = a.drawn
    /\ written' = written \cup {image_files[idx]}
    /\ successful' = successful + 1
    /\ failed' = failed
    /\ NextImage
    /\ UNCHANGED <<image_files, sumVars, cliVars, cropVars, scriptVars>>

\* a response other than 200 that ends the batch
ImageHttpFailed_abort ==
    /\ pc = "loop"
    /\ \E e \in BatchEnvs :
          LET a == Attempt(e) IN
          /\ a.branch = "http"
          /\ log' = Append(log, Line(a))
          /\ drawn' = a.drawn
    /\ failed' = failed + 1
    /\ idx' = idx + 1
    /\ pc' = "done"
    /\ UNCHANGED <<successful, written, image_files, sumVars, cliVars, cropVars, scriptVars>>

\* a response other than 200
ImageHttpFailed ==
    /\ pc = "loop"
    /\ \E e \in BatchEnvs :
          LET a == Attempt(e) IN
          /\ a.branch = "http"
          /\ log' = Append(log, Line(a))
          /\ drawn' = a.drawn
    /\ failed' = failed + 1
    /\ NextImage
    /\ UNCHANGED <<successful, written, image_files, sumVars, cliVars, cropVars, scriptVars>>

\* an exception that is caught and not counted
ImageRaised_uncounted ==
    /\ pc = "loop"
    /\ \E e \in BatchEnvs :
          LET a == Attempt(e) IN
          /\ a.branch = "except"
          /\ log' = Append(log, Line(a))
          /\ drawn' = a.drawn
          /\ failed' = IF a.stage \in AnnotateStages THEN failed ELSE failed + 1
    /\ NextImage
    /\ UNCHANGED <<successful, written, image_files, sumVars, cliVars, cropVars, scriptVars>>

\* an exception that is caught after the image was already counted as
\* successful (the count taken before the save)
ImageRaised_counted_before_save ==
    /\ pc = "loop"
    /\ \E e \in BatchEnvs :
          LET a == Attempt(e) IN
          /\ a.branch = "except"
          /\ log' = Append(log, Line(a))
          /\ drawn' = a.drawn
          /\ successful' = IF a.stage = "save" THEN successful + 1 ELSE successful
    /\ failed' = failed + 1
    /\ NextImage
    /\ UNCHANGED <<written, image_files, sumVars, cliVars, cropVars, scriptVars>>

\* an exception anywhere in the try block: caught
ImageRaised ==
    /\ pc = "loop"
    /\ \E e \in BatchEnvs :
          LET a == Attempt(e) IN
          /\ a.branch = "except"
          /\ log' = Append(log, Line(a))
          /\ drawn' = a.drawn
    /\ failed' = failed + 1
    /\ NextImage
    /\ UNCHANGED <<successful, written, image_files, sumVars, cliVars, cropVars, scriptVars>>

---------------------------------------------------------------------------
(* scripts/test_bbox.py and tests/test_bbox_bulk.py: the annotation loops  *)
(* run at module level.  Nothing is caught: an exception ends the script.  *)
(* The boxes are drawn as received (no int()), so what is drawn is held in *)
(* half pixels.                                                            *)

\* valid_ext of scripts/test_bbox.py
valid_ext == {".jpg", ".jpeg", ".png", ".bmp", ".tiff"}

\* the extensions tests/test_bbox_bulk.py accepts
bulk_ext == {".png", ".jpg", ".jpeg", ".webp"}

Accepts(which, ext) ==
    IF which = "test_bbox" THEN Lower(ext) \in valid_ext ELSE Lower(ext) \in bulk_ext

\* scripts/test_bbox.py: draw.text((x1, y1 - 10), ...)
test_bbox_label(box) == <<box[1], box[2] - 20>>

\* tests/test_bbox_bulk.py: draw.text((x1, max(0, y1 - 10)), ...)
test_bbox_bulk_label(box) == <<box[1], Max(0, box[2] - 20)>>

ScriptDrawing(which, box, score) ==
    [rect |-> box,
     label |-> IF which = "test_bbox" THEN test_bbox_label(box) ELSE test_bbox_bulk_label(box),
     text |-> Fmt2(score)]

\* the loop over zip(boxes, scores), from pair k on
RECURSIVE ScriptDrawLoop(_, _, _, _)
ScriptDrawLoop(which, pairs, k, done) ==
    IF k > Len(pairs) THEN [raised |-> FALSE, drawn |-> done]
    ELSE IF Len(pairs[k][1]) # 4 THEN [raised |-> TRUE, drawn |-> done]
    ELSE ScriptDrawLoop(which, pairs, k + 1,
                        Append(done, ScriptDrawing(which, pairs[k][1], pairs[k][2])))

\* the body of the loop for one accepted file: how it ends, and what was
\* drawn on the way
ScriptAttempt(which, e) ==
    IF ~e.srcOk THEN Stopped("except", "open", <<>>)
    ELSE IF ~e.postOk THEN Stopped("except", "post", <<>>)
    ELSE IF e.status # 200 THEN Stopped("http", "status", <<>>)
    ELSE IF ~e.jsonOk THEN Stopped("except", "json", <<>>)
    ELSE IF e.body.null THEN Stopped("except", "payload", <<>>)
    ELSE IF ~e.decodeOk THEN Stopped("except", "decode", <<>>)
    ELSE LET d == ScriptDrawLoop(which, Zip(Get(e.body, "boxes"), Get(e.body, "scores")),
                                 1, <<>>)
         IN IF d.raised THEN Stopped("except", "box", d.drawn)
            ELSE IF ~e.saveOk THEN Stopped("except", "save", d.drawn)
            ELSE Stopped("ok", "none", d.drawn)

\* no script run
IdleScripts ==
    /\ script = "none"
    /\ scrPc = "start"
    /\ scrFiles = <<>>
    /\ scrIdx = 0
    /\ scrSaved = {}
    /\ scrDrawn = <<>>

\* os.makedirs(output) or os.listdir(input) raises
ScriptStartRaises ==
    /\ scrPc = "start"
    /\ scrPc' = "raised"
    /\ UNCHANGED <<script, scrFiles, scrIdx, scrSaved, scrDrawn>>
    /\ UNCHANGED <<sumVars, cliVars, cropVars, batchVars>>

\* the output folder is there and the input folder is listed
ScriptStart ==
    /\ scrPc = "start"
    /\ \E l \in Listings :
          /\ scrFiles' = l
          /\ scrPc' = IF l = <<>> THEN "done" ELSE "loop"
    /\ scrIdx' = 1
    /\ UNCHANGED <<script, scrSaved, scrDrawn>>
    /\ UNCHANGED <<sumVars, cliVars, cropVars, batchVars>>

\* the end of one iteration: the next entry, or the end of the script
ScriptNext ==
    /\ scrIdx' = scrIdx + 1
    /\ scrPc' = IF scrIdx = Len(scrFiles) THEN "done" ELSE "loop"

\* an entry whose extension is not accepted
ScriptSkips ==
    /\ scrPc = "loop"
    /\ ~Accepts(script, scrFiles[scrIdx])
    /\ ScriptNext
    /\ UNCHANGED <<script, scrFiles, scrSaved, scrDrawn>>
    /\ UNCHANGED <<sumVars, cliVars, cropVars, batchVars>>

\* status 200: the boxes are drawn and the image is saved
ScriptAnnotates ==
    /\ scrPc = "loop"
    /\ Accepts(script, scrFiles[scrIdx])
    /\ \E e \in BatchEnvs :
          /\ ScriptAttempt(script, e).branch = "ok"
          /\ scrDrawn' = ScriptAttempt(script, e).drawn
    /\ scrSaved' = scrSaved \cup {Entry(scrFiles, scrIdx)}
    /\ ScriptNext
    /\ UNCHANGED <<script, scrFiles>>
    /\ UNCHANGED <<sumVars, cliVars, cropVars, batchVars>>

\* a response other than 200: printed, and the loop goes on
ScriptHttpFailed ==
    /\ scrPc = "loop"
    /\ Accepts(script, scrFiles[scrIdx])
    /\ \E e \in BatchEnvs : ScriptAttempt(script, e).branch = "http"
    /\ ScriptNext
    /\ UNCHANGED <<script, scrFiles, scrSaved, scrDrawn>>
    /\ UNCHANGED <<sumVars, cliVars, cropVars, batchVars>>

\* an exception: the script ends with it
ScriptCrashes ==
    /\ scrPc = "loop"
    /\ Accepts(script, scrFiles[scrIdx])
    /\ \E e \in BatchEnvs :
          /\ ScriptAttempt(script, e).branch = "except"
          /\ scrDrawn' = ScriptAttempt(script, e).drawn
    /\ scrPc' = "raised"
    /\ UNCHANGED <<script, scrFiles, scrIdx, scrSaved>>
    /\ UNCHANGED <<sumVars, cliVars, cropVars, batchVars>>

---------------------------------------------------------------------------
(* Specifications *)

\* process_batch
Init == InitBatch /\ IdleSummary /\ IdleClient /\ IdleCrop /\ IdleScripts

Next ==
    \/ MakedirsRaises
    \/ ListdirRaises
    \/ NoImages
    \/ StartLoop
    \/ ImageSucceeded
    \/ ImageHttpFailed
    \/ ImageRaised

Spec == Init /\ [][Next]_vars

\* get_detection_summary on every payload
InitSummary ==
    /\ sumArg \in Payloads
    /\ sumRet = NoCall
    /\ InitBatch /\ IdleClient /\ IdleCrop /\ IdleScripts

NextSummary == GetDetectionSummary

SpecSummary == InitSummary /\ [][NextSummary]_vars

\* the detection clients on every outcome of the request
InitClient ==
    /\ cliCall \in [called : {FALSE}, fn : {"none"}, env : Envs]
    /\ cliRet = None
    /\ cliRaised = FALSE
    /\ cliPrinted = Quiet
    /\ InitBatch /\ IdleSummary /\ IdleCrop /\ IdleScripts

NextClient == DetectReceipts \/ DetectReceiptsFromPil \/ BasicDetectReceipts

SpecClient == InitClient /\ [][NextClient]_vars

\* crop_receipts, twice, on every image, payload and output directory
InitCrop ==
    /\ cropArg \in CropArgs
    /\ cropDir \in OutputDirs
    /\ cropRet = NotCropped
    /\ cropPrev = [ret |-> NotCropped, dir |-> cropDir]
    /\ cropRuns = 0
    /\ InitBatch /\ IdleSummary /\ IdleClient /\ IdleScripts

NextCrop == CropReceipts \/ CropReceiptsAgain

SpecCrop == InitCrop /\ [][NextCrop]_vars

\* either annotation script, on every listing
InitScripts ==
    /\ script \in {"test_bbox", "test_bbox_bulk"}
    /\ scrPc = "start"
    /\ scrFiles = <<>>
    /\ scrIdx = 0
    /\ scrSaved = {}
    /\ scrDrawn = <<>>
    /\ InitBatch /\ IdleSummary /\ IdleClient /\ IdleCrop

NextScripts ==
    \/ ScriptStartRaises
    \/ ScriptStart
    \/ ScriptSkips
    \/ ScriptAnnotates
    \/ ScriptHttpFailed
    \/ ScriptCrashes

SpecScripts == InitScripts /\ [][NextScripts]_vars

---------------------------------------------------------------------------
(* Properties of process_batch (Spec) *)

Branches == [k \in DOMAIN log |-> log[k].branch]

\* C1: batch isolation. Whatever images fail, every listed image is
\* processed in order: inside the loop all images before the current one
\* have their line, at the end all have; an image has its annotated file
\* exactly when it succeeded; and the batch ok, HTTP 500, ok ends with
\* successful = 2, failed = 1 and the files of images 1 and 3 written.
C1_BatchIsolation ==
    /\ pc = "loop" => Len(log) = idx - 1
    /\ pc = "done" =>
         /\ Len(log) = Len(image_files)
         /\ \A k \in DOMAIN log :
              /\ log[k].file = image_files[k]
              /\ log[k].branch = "ok" <=> image_files[k] \in written
         /\ Branches = <<"ok", "http", "ok">> =>
              /\ successful = 2
              /\ failed = 1
              /\ written = {image_files[1], image_files[3]}

C1_Witness ==
    /\ pc = "done"
    /\ Branches = <<"ok", "http", "ok">>
    /\ successful = 2
    /\ failed = 1
    /\ written = {image_files[1], image_files[3]}

\* C4: no exception escapes process_batch, whatever statement raises it,
\* creating the output directory and listing the input directory included.
C4_NoExceptionEscapes == pc # "raised"

\* C5 as claimed: an image whose detection succeeded is not counted as
\* failed for the failure of one sub-step (decoding, drawing, saving the
\* annotated image): failed counts the failed detections only.
C5_SubStepFailureNotCounted ==
    failed = Cardinality({k \in DOMAIN log :
                             log[k].branch # "ok" /\ log[k].stage \notin AnnotateStages})

\* C5 as amended: annotation is the one sub-step process_batch runs after a
\* detection, and an exception in it (decoding the image, unpacking a box,
\* saving the annotated copy) fails the image by itself: failed goes up
\* by one, successful and the written files stay, and the loop goes on.
C5_AnnotationFailureFailsImage ==
    [][ (Len(log') = Len(log) + 1 /\ log'[Len(log')].stage \in AnnotateStages)
          => /\ failed' = failed + 1
             /\ successful' = successful
             /\ written' = written
             /\ idx' = idx + 1
             /\ pc' \in {"loop", "done"} ]_vars

C5_Witness ==
    /\ pc = "done"
    /\ Len(log) = 2
    /\ log[1].stage = "save"
    /\ log[2].branch = "ok"
    /\ failed = 1
    /\ successful = 1

\* C12: the two counters of process_batch. After every iteration
\* successful + failed is the number of images processed so far; an
\* iteration adds one to exactly one of the two and leaves the other;
\* neither ever decreases; and when the loop has ended the sum is the
\* number of supported image files listed at the start.
C12_CountersPartitionImages ==
    [][ /\ successful' + failed' = Len(log')
        /\ pc' = "loop" => successful' + failed' = idx' - 1
        /\ successful' >= successful
        /\ failed' >= failed
        /\ Len(log') = Len(log) + 1 =>
              \/ (successful' = successful + 1 /\ failed' = failed)
              \/ (successful' = successful /\ failed' = failed + 1)
        /\ Len(log') = Len(log) => (successful' = successful /\ failed' = failed)
        /\ pc' = "done" => successful' + failed' = Len(image_files') ]_vars

C12_Witness ==
    /\ pc = "done"
    /\ Len(image_files) = 3
    /\ Branches = <<"except", "ok", "http">>
    /\ successful = 1
    /\ failed = 2

---------------------------------------------------------------------------
(* Properties of get_detection_summary (SpecSummary) *)

\* C6: a result with no scores (None, the empty mapping, a mapping with no
\* "scores" key, an empty "scores" list) gives count 0 and confidences 0,
\* and nothing is raised.
C6_EmptyScoresDefault ==
    (sumRet.called /\ (sumArg.null \/ DOMAIN sumArg.d = {}
                        \/ "scores" \notin DOMAIN sumArg.d
                        \/ sumArg.d["scores"] = <<>>))
      => /\ ~sumRet.raised
         /\ sumRet.value = [count |-> 0, avg_confidence |-> <<0, 1>>,
                            max_confidence |-> 0, min_confidence |-> 0]

C6_Witness ==
    /\ sumRet.called
    /\ ~sumArg.null
    /\ DOMAIN sumArg.d = {"boxes"}
    /\ Len(sumArg.d["boxes"]) = 2
    /\ sumRet.value.count = 0

\* C7: the count of the summary is the number of boxes of the raw result,
\* whatever the scores are.
C7_CountIsBoxes ==
    sumRet.called =>
        sumRet.value.count = (IF sumArg.null THEN 0 ELSE Len(Get(sumArg, "boxes")))

---------------------------------------------------------------------------
(* Properties of the detection clients (SpecClient) *)

\* the call got a response parsed into a payload
Parsed(e) == e.srcOk /\ e.postOk /\ e.status = 200 /\ e.jsonOk

\* the call got a response with a status other than 200
Refused(e) == e.srcOk /\ e.postOk /\ e.status # 200

\* the returned value holds the status code and the text of the response
Carries(ret, e) ==
    /\ ~ret.null
    /\ {"status_code", "text"} \subseteq DOMAIN ret.d
    /\ ret.d["status_code"] = e.status
    /\ ret.d["text"] = e.text

\* C8 as claimed: the client never raises, a failure outcome carries the
\* status code (when there is one) and the response text, and the parsed
\* payload is returned on 200 only.
C8_FailureCarriesStatus ==
    cliCall.called =>
        /\ ~cliRaised
        /\ Refused(cliCall.env) => Carries(cliRet, cliCall.env)
        /\ Parsed(cliCall.env) => cliRet = cliCall.env.body
        /\ (~cliRet.null /\ ~Refused(cliCall.env)) => Parsed(cliCall.env)

\* C8 as amended: the client never raises; on a status other than 200 and on
\* any exception (opening or encoding the image, the transport, parsing the
\* body) it returns None, the status code and the text being printed, not
\* returned; on 200 it returns the parsed payload.
C8_FailureReturnsNone ==
    cliCall.called =>
        LET e == cliCall.env IN
        /\ ~cliRaised
        /\ Parsed(e) => (cliRet = e.body /\ cliPrinted = [kind |-> "none"])
        /\ Refused(e) =>
             /\ cliRet = None
             /\ cliPrinted = [kind |-> "api", status |-> e.status, text |-> e.text]
        /\ (~Parsed(e) /\ ~Refused(e)) =>
             /\ cliRet = None
             /\ cliPrinted.kind = "exception"

C8_Witness ==
    /\ cliCall.called
    /\ cliCall.fn = "detect_receipts"
    /\ Refused(cliCall.env)
    /\ cliCall.env.status = 500
    /\ cliRet = None
    /\ cliPrinted.kind = "api"
    /\ ~cliRaised

---------------------------------------------------------------------------
(* Properties of crop_receipts (SpecCrop) *)

CropPairs == Zip(Get(cropArg.result, "boxes"), Get(cropArg.result, "scores"))

\* the call ran its body: a result that is not falsy, an image that decodes
CropRan == cropRet.called /\ ~Falsy(cropArg.result) /\ cropArg.image.ok

\* C2: a payload whose boxes and scores differ in length is not processed:
\* the call fails before any box is cropped.
C2_AlignmentChecked ==
    (CropRan /\ Len(Get(cropArg.result, "boxes")) # Len(Get(cropArg.result, "scores")))
      => (cropRet.raised /\ cropDir = cropPrev.dir)

Clamp(v, hi) == Max(0, Min(v, hi))

\* the box in pixels, clamped to the image
Clamped(img, box) ==
    <<Clamp(PyInt(box[1]), img.w), Clamp(PyInt(box[2]), img.h),
      Clamp(PyInt(box[3]), img.w), Clamp(PyInt(box[4]), img.h)>>

Positive(r) == r[3] > r[1] /\ r[4] > r[2]

\* the pairs whose clamped box has a width and a height, in order
Surviving ==
    LET Keeps(p) == Positive(Clamped(cropArg.image, p[1]))
    IN SelectSeq(CropPairs, Keeps)

\* C3: every box is clamped to the image before cropping, and a crop is
\* written exactly for the boxes whose clamped region has a width and a
\* height: one path and one file for each of them, holding the clamped
\* region, and none for a box outside the image.
C3_ClampedCrops ==
    (CropRan /\ cropRuns = 1) =>
        /\ ~cropRet.raised
        /\ Len(cropRet.paths) = Len(Surviving)
        /\ \A k \in DOMAIN cropRet.paths :
             /\ k \in DOMAIN Surviving
             /\ cropRet.paths[k] \in Names(cropDir)
             /\ Content(cropDir, cropRet.paths[k]) =
                  << [src |-> cropArg.image.id,
                      region |-> Clamped(cropArg.image, Surviving[k][1])] >>

C10_Idempotent ==
    cropRuns = 2 => (cropRet = cropPrev.ret /\ cropDir = cropPrev.dir)

C10_Witness ==
    /\ cropRuns = 2
    /\ CropRan
    /\ ~cropRet.raised
    /\ Len(cropRet.paths) = 2
    /\ Stale \notin cropDir
    /\ Cardinality(cropDir) = 2

---------------------------------------------------------------------------
(* Properties of the annotation routines (SpecScripts, Spec) *)

\* a label of process_batch (pixels, offset 15) is where the claim puts it
BatchLabelClamped(d) ==
    d.label[2] >= 0 /\ d.label[2] = Max(0, d.rect[2] - 15)

\* a label of a script (half pixels, offset 10) is where the claim puts it
ScriptLabelClamped(d) ==
    d.label[2] >= 0 /\ d.label[2] = Max(0, d.rect[2] - 20)

\* C11: in every annotation routine (process_batch, scripts/test_bbox.py,
\* tests/test_bbox_bulk.py) the score label of every box drawn is put at
\* y = max(0, y1 - label_offset): its y-coordinate is never negative, also
\* for a box whose y1 is smaller than the offset.
C11_LabelNeverAboveTop ==
    /\ \A k \in DOMAIN drawn : BatchLabelClamped(drawn[k])
    /\ \A k \in DOMAIN scrDrawn : ScriptLabelClamped(scrDrawn[k])

===========================================================================
